---- MODULE Spec2Model ----
(***************************************************************************)
(* Model of the forum backend: the express controllers of posts, comments  *)
(* and communities over the mongoose models Post, Comment and Community.   *)
(*                                                                         *)
(* The store is the three collections. Arrays of user references are       *)
(* sequences, as the JavaScript arrays they are (a user can occur twice).  *)
(* Every sequential action is one whole request handler, from its first    *)
(* statement to the response; the interleaved specifications split a       *)
(* handler at its awaits on the store.                                     *)
(***************************************************************************)
EXTENDS Integers, Sequences, FiniteSets, TLC

\* ------------------------------------------------------------------ bounds
NumUsers == 2
MaxPosts == 2
MaxComments == 3
MaxReqs == 3

Users == 1..NumUsers
PostIds == 1..MaxPosts
CommentIds == 1..MaxComments
Reqs == 1..MaxReqs
CommunityNames == {"foo", "bar"}

\* parent: null of a top-level comment
Null == 0
\* a well-formed ObjectId that is the _id of no comment, ever
NoSuchComment == MaxComments + 1

VARIABLES
  communities,    \* Community collection: name -> document
  posts,          \* Post collection: _id -> document
  comments,       \* Comment collection: _id -> document
  nextPostId,     \* the next fresh Post _id
  nextCommentId,  \* the next fresh Comment _id
  req,            \* the request handled last
  res,            \* the response sent last
  pre,            \* history: the actor's vote and the target's voteScore before the request
                  \* handled last and, when that request repeated the one before it, before that one
  inflight        \* interleaved requests: request -> what its handler holds between its awaits

store == <<communities, posts, comments, nextPostId, nextCommentId>>
vars == <<communities, posts, comments, nextPostId, nextCommentId, req, res, pre, inflight>>

\* ------------------------------------------------------------- JS arrays
\* Array.prototype.includes
Includes(arr, x) == \E i \in 1..Len(arr) : arr[i] = x
KeepAll(arr, x) == arr
\* arr.filter(id => id.toString() !== x)
FilterOut(arr, x) == SelectSeq(arr, LAMBDA y : y # x)
\* the number of times x occurs in arr
Occurrences(arr, x) == Cardinality({i \in 1..Len(arr) : arr[i] = x})

\* a collection without the documents of ids
Without(coll, ids) == [k \in DOMAIN coll \ ids |-> coll[k]]

\* ------------------------------------------------------ requests, responses
Req(op, u, id, name, value, parent) ==
  [op |-> op, user |-> u, id |-> id, name |-> name, value |-> value, parent |-> parent]

NoData ==
  [kind |-> "none", voteScore |-> 0, upvotes |-> 0, downvotes |-> 0, memberCount |-> 0,
   thread |-> <<>>]
VoteData(doc) ==
  [kind |-> "vote", voteScore |-> doc.voteScore, upvotes |-> Len(doc.upvotes),
   downvotes |-> Len(doc.downvotes), memberCount |-> 0, thread |-> <<>>]
\* data: community
CommunityData(doc) ==
  [kind |-> "community", voteScore |-> 0, upvotes |-> 0, downvotes |-> 0,
   memberCount |-> doc.memberCount, thread |-> <<>>]
\* data: { memberCount: community.members.length }
MemberData(doc) ==
  [kind |-> "members", voteScore |-> 0, upvotes |-> 0, downvotes |-> 0,
   memberCount |-> Len(doc.members), thread |-> <<>>]
\* data: the comments of a post, each with its replies
ThreadData(thread) ==
  [kind |-> "thread", voteScore |-> 0, upvotes |-> 0, downvotes |-> 0, memberCount |-> 0,
   thread |-> thread]

NoPre == [vote |-> 0, voteScore |-> 0, twice |-> FALSE, firstVote |-> 0, firstScore |-> 0]

\* res.status(status).json(...) for request rq
Respond(rq, status, data) ==
  /\ req' = rq
  /\ res' = [status |-> status, error |-> "", data |-> data]

\* res.status(status).json({ success: false, error }) for request rq; the errors
\* array of express-validator is the error "validation"
Fail(rq, status, error) ==
  /\ req' = rq
  /\ res' = [status |-> status, error |-> error, data |-> NoData]

\* a request that has not arrived yet, and one that has been answered
Idle == [pc |-> "idle"]
Done == [pc |-> "done"]

Init ==
  /\ communities = <<>>
  /\ posts = <<>>
  /\ comments = <<>>
  /\ nextPostId = 1
  /\ nextCommentId = 1
  /\ req = Req("none", 0, 0, "", 0, Null)
  /\ res = [status |-> 0, error |-> "", data |-> NoData]
  /\ pre = NoPre
  /\ inflight = [r \in Reqs |-> Idle]

\* ------------------------------------------------------------ schema hooks
MutVoteScoreOf(doc) == Len(doc.upvotes) + Len(doc.downvotes)
\* upvotes.length - downvotes.length
VoteScoreOf(doc) == Len(doc.upvotes) - Len(doc.downvotes)

\* PostSchema.pre('save'), CommentSchema.pre('save')
PreSaveVotes(doc) == [doc EXCEPT !.voteScore = VoteScoreOf(doc)]

MutPreSaveCommunity(doc) == doc
\* CommunitySchema.pre('save'): memberCount = members.length
PreSaveCommunity(doc) == [doc EXCEPT !.memberCount = Len(doc.members)]

\* ------------------------------------------------------------ communities
\* createCommunity without its findOne({ name }) check
CreateCommunityUnchecked(u, name, valid) ==
  LET rq == Req("createCommunity", u, 0, name, 0, Null) IN
  /\ UNCHANGED <<posts, comments, nextPostId, nextCommentId, inflight>>
  /\ pre' = NoPre
  /\ IF ~valid
     THEN /\ Fail(rq, 400, "validation")
          /\ UNCHANGED communities
     ELSE LET doc == PreSaveCommunity([creator |-> u, moderators |-> <<u>>,
                                       members |-> <<u>>, memberCount |-> 0]) IN
          /\ communities' = (name :> doc) @@ communities
          /\ Respond(rq, 201, CommunityData(doc))

\* POST /api/communities
CreateCommunity(u, name, valid) ==
  LET rq == Req("createCommunity", u, 0, name, 0, Null) IN
  /\ UNCHANGED <<posts, comments, nextPostId, nextCommentId, inflight>>
  /\ pre' = NoPre
  /\ IF ~valid
     THEN /\ Fail(rq, 400, "validation")
          /\ UNCHANGED communities
     ELSE IF name \in DOMAIN communities
     THEN /\ Fail(rq, 400, "Community with that name already exists")
          /\ UNCHANGED communities
     ELSE LET doc == PreSaveCommunity([creator |-> u, moderators |-> <<u>>,
                                       members |-> <<u>>, memberCount |-> 0]) IN
          /\ communities' = communities @@ (name :> doc)
          /\ Respond(rq, 201, CommunityData(doc))

\* POST /api/posts
CreatePost(u, name, valid) ==
  LET rq == Req("createPost", u, 0, name, 0, Null) IN
  /\ nextPostId <= MaxPosts
  /\ UNCHANGED <<communities, comments, nextCommentId, inflight>>
  /\ pre' = NoPre
  /\ IF ~valid
     THEN /\ Fail(rq, 400, "validation")
          /\ UNCHANGED <<posts, nextPostId>>
     ELSE IF name \notin DOMAIN communities
     THEN /\ Fail(rq, 404, "Community not found")
          /\ UNCHANGED <<posts, nextPostId>>
     ELSE LET doc == PreSaveVotes([title |-> "title", author |-> u, community |-> name,
                                   upvotes |-> <<>>, downvotes |-> <<>>,
                                   voteScore |-> 0, commentCount |-> 0]) IN
          /\ posts' = posts @@ (nextPostId :> doc)
          /\ nextPostId' = nextPostId + 1
          /\ Respond([rq EXCEPT !.id = nextPostId], 201, NoData)

\* --------------------------------------------------------------- comments
\* POST /api/posts/:id/comments
AddComment(u, id, parent, contentOk) ==
  LET rq == Req("addComment", u, id, "", 0, parent) IN
  /\ nextCommentId <= MaxComments
  /\ UNCHANGED <<communities, nextPostId, inflight>>
  /\ pre' = NoPre
  /\ IF ~contentOk
     THEN /\ Fail(rq, 400, "validation")
          /\ UNCHANGED <<posts, comments, nextCommentId>>
     ELSE IF id \notin DOMAIN posts
     THEN /\ Fail(rq, 404, "Post not found")
          /\ UNCHANGED <<posts, comments, nextCommentId>>
     ELSE LET post == posts[id]
              comment == [content |-> "content", author |-> u, post |-> id, parent |-> parent,
                          upvotes |-> <<>>, downvotes |-> <<>>, voteScore |-> 0]
          IN
          /\ comments' = comments @@ (nextCommentId :> PreSaveVotes(comment))
          /\ nextCommentId' = nextCommentId + 1
          /\ posts' = [posts EXCEPT ![id] =
                         PreSaveVotes([post EXCEPT !.commentCount = post.commentCount + 1])]
          /\ Respond(rq, 201, NoData)

\* Comment.deleteMany({ parent: id })
DeleteReplies(coll, id) == Without(coll, {c \in DOMAIN coll : coll[c].parent = id})
\* Comment.countDocuments({ parent: id })
CountReplies(coll, id) == Cardinality({c \in DOMAIN coll : coll[c].parent = id})

\* DELETE /api/comments/:id
DeleteComment(u, id) ==
  LET rq == Req("deleteComment", u, id, "", 0, Null) IN
  /\ UNCHANGED <<communities, nextPostId, nextCommentId, inflight>>
  /\ pre' = NoPre
  /\ IF id \notin DOMAIN comments
     THEN /\ Fail(rq, 404, "Comment not found")
          /\ UNCHANGED <<posts, comments>>
     ELSE IF comments[id].post \notin DOMAIN posts
     THEN \* post is null: post.author throws, or (the comment's author is not
          \* checked against it) post.commentCount does once the replies are
          \* deleted; the error middleware answers
          /\ Fail(rq, 500, "Server error")
          /\ UNCHANGED posts
          /\ comments' = IF comments[id].author # u THEN comments
                         ELSE DeleteReplies(comments, id)
     ELSE LET comment == comments[id]
              post == posts[comment.post]
          IN
          IF comment.author # u /\ post.author # u
          THEN /\ Fail(rq, 401, "Not authorized to delete this comment")
               /\ UNCHANGED <<posts, comments>>
          ELSE LET afterReplies == DeleteReplies(comments, id)
                   repliesCount == CountReplies(afterReplies, id)
                   counted == [post EXCEPT
                                 !.commentCount = (post.commentCount - 1) - repliesCount]
               IN
               /\ posts' = [posts EXCEPT ![comment.post] = PreSaveVotes(counted)]
               /\ comments' = Without(afterReplies, {id})
               /\ Respond(rq, 200, NoData)

\* ------------------------------------------------- comment trees: Spec
NextComments ==
  \/ \E u \in Users, valid \in BOOLEAN : CreateCommunity(u, "foo", valid)
  \/ \E u \in Users, name \in CommunityNames, valid \in BOOLEAN : CreatePost(u, name, valid)
  \/ \E u \in Users, id \in PostIds, contentOk \in BOOLEAN,
        parent \in {Null, NoSuchComment} \cup (1..(nextCommentId - 1)) :
       AddComment(u, id, parent, contentOk)
  \/ \E u \in Users, id \in CommentIds : DeleteComment(u, id)

SpecComments == Init /\ [][NextComments]_vars

\* ------------------------------------------------------------------ votes
\* the vote the arrays of doc hold for user u: 1, -1, or 0 for none
VoteOf(doc, u) ==
  IF Includes(doc.upvotes, u) THEN 1
  ELSE IF Includes(doc.downvotes, u) THEN -1
  ELSE 0

\* no toggle-off: the vote is recorded whatever the previous one was
MutCastVote(doc, u, value) ==
  LET ups == FilterOut(doc.upvotes, u)
      downs == FilterOut(doc.downvotes, u)
      ups2 == IF value = 1 THEN Append(ups, u) ELSE ups
      downs2 == IF value = 1 THEN downs ELSE Append(downs, u)
  IN [doc EXCEPT !.upvotes = ups2, !.downvotes = downs2,
                 !.voteScore = Len(ups2) - Len(downs2)]

\* never removes the previous vote of the opposite value
KeepOppositeCastVote(doc, u, value) ==
  LET upvoted == Includes(doc.upvotes, u)
      downvoted == Includes(doc.downvotes, u)
      ups == IF upvoted /\ value = 1 THEN FilterOut(doc.upvotes, u) ELSE doc.upvotes
      downs == IF downvoted /\ value = -1 THEN FilterOut(doc.downvotes, u) ELSE doc.downvotes
      add == (value = 1 /\ ~upvoted) \/ (value = -1 /\ ~downvoted)
      ups2 == IF add /\ value = 1 THEN Append(ups, u) ELSE ups
      downs2 == IF add /\ value # 1 THEN Append(downs, u) ELSE downs
  IN [doc EXCEPT !.upvotes = ups2, !.downvotes = downs2,
                 !.voteScore = Len(ups2) - Len(downs2)]

\* the handler's document after its in-memory vote bookkeeping
CastVote(doc, u, value) ==
  LET upvoted == Includes(doc.upvotes, u)
      downvoted == Includes(doc.downvotes, u)
      ups == IF upvoted THEN FilterOut(doc.upvotes, u) ELSE doc.upvotes
      downs == IF downvoted THEN FilterOut(doc.downvotes, u) ELSE doc.downvotes
      add == (value = 1 /\ ~upvoted) \/ (value = -1 /\ ~downvoted)
      ups2 == IF add /\ value = 1 THEN Append(ups, u) ELSE ups
      downs2 == IF add /\ value # 1 THEN Append(downs, u) ELSE downs
  IN [doc EXCEPT !.upvotes = ups2, !.downvotes = downs2,
                 !.voteScore = VoteScoreOf([upvotes |-> ups2, downvotes |-> downs2])]

\* save() sends the array it reassigned whole, guarded by the version it read
VersionedVote(read, u) == Includes(read.upvotes, u) \/ Includes(read.downvotes, u)

\* save() of the voted document: what the stored document becomes. mongoose
\* sends the modified paths only: a reassigned array (the filter) is $set
\* whole, a push is a $push onto the stored array, voteScore is $set when the
\* handler's value differs from the one it read
SaveVote(stored, read, u, value) ==
  LET local == PreSaveVotes(CastVote(read, u, value))
      upvoted == Includes(read.upvotes, u)
      downvoted == Includes(read.downvotes, u)
      add == (value = 1 /\ ~upvoted) \/ (value = -1 /\ ~downvoted)
  IN [stored EXCEPT
        !.upvotes = IF upvoted THEN local.upvotes
                    ELSE IF add /\ value = 1 THEN Append(stored.upvotes, u)
                    ELSE @,
        !.downvotes = IF downvoted THEN local.downvotes
                      ELSE IF add /\ value # 1 THEN Append(stored.downvotes, u)
                      ELSE @,
        !.voteScore = IF local.voteScore # read.voteScore THEN local.voteScore ELSE @]

\* history of a successful vote request rq on doc
PreOf(doc, rq) ==
  LET twice == req = rq /\ res.status = 200 IN
  [vote |-> VoteOf(doc, rq.user), voteScore |-> doc.voteScore, twice |-> twice,
   firstVote |-> IF twice THEN pre.vote ELSE 0,
   firstScore |-> IF twice THEN pre.voteScore ELSE 0]

\* POST /api/posts/:id/vote
VotePost(u, id, value) ==
  LET rq == Req("votePost", u, id, "", value, Null) IN
  /\ UNCHANGED <<communities, comments, nextPostId, nextCommentId, inflight>>
  /\ IF value # 1 /\ value # -1
     THEN /\ Fail(rq, 400, "Vote value must be 1 or -1")
          /\ pre' = NoPre
          /\ UNCHANGED posts
     ELSE IF id \notin DOMAIN posts
     THEN /\ Fail(rq, 404, "Post not found")
          /\ pre' = NoPre
          /\ UNCHANGED posts
     ELSE LET post == posts[id] IN
          /\ pre' = PreOf(post, rq)
          /\ posts' = [posts EXCEPT ![id] = SaveVote(post, post, u, value)]
          /\ Respond(rq, 200, VoteData(PreSaveVotes(CastVote(post, u, value))))

\* POST /api/comments/:id/vote
VoteComment(u, id, value) ==
  LET rq == Req("voteComment", u, id, "", value, Null) IN
  /\ UNCHANGED <<communities, posts, nextPostId, nextCommentId, inflight>>
  /\ IF value # 1 /\ value # -1
     THEN /\ Fail(rq, 400, "Vote value must be 1 or -1")
          /\ pre' = NoPre
          /\ UNCHANGED comments
     ELSE IF id \notin DOMAIN comments
     THEN /\ Fail(rq, 404, "Comment not found")
          /\ pre' = NoPre
          /\ UNCHANGED comments
     ELSE LET comment == comments[id] IN
          /\ pre' = PreOf(comment, rq)
          /\ comments' = [comments EXCEPT ![id] = SaveVote(comment, comment, u, value)]
          /\ Respond(rq, 200, VoteData(PreSaveVotes(CastVote(comment, u, value))))

VoteValues == {1, -1, 0}
\* the _ids of the stored documents and one that is the _id of none
SomePostIds == DOMAIN posts \cup {nextPostId}
SomeCommentIds == DOMAIN comments \cup {nextCommentId}

\* a store the creation handlers reach: community foo, a post in it, a comment on the post
InitVotes ==
  /\ communities = ("foo" :> [creator |-> 1, moderators |-> <<1>>,
                              members |-> <<1>>, memberCount |-> 1])
  /\ posts = (1 :> [title |-> "title", author |-> 1, community |-> "foo",
                    upvotes |-> <<>>, downvotes |-> <<>>, voteScore |-> 0,
                    commentCount |-> 1])
  /\ comments = (1 :> [content |-> "content", author |-> NumUsers, post |-> 1,
                       parent |-> Null, upvotes |-> <<>>, downvotes |-> <<>>,
                       voteScore |-> 0])
  /\ nextPostId = 2
  /\ nextCommentId = 2
  /\ req = Req("addComment", NumUsers, 1, "", 0, Null)
  /\ res = [status |-> 201, error |-> "", data |-> NoData]
  /\ pre = NoPre
  /\ inflight = [r \in Reqs |-> Idle]

NextVotes ==
  \/ \E u \in Users, id \in SomePostIds, value \in VoteValues : VotePost(u, id, value)
  \/ \E u \in Users, id \in SomeCommentIds, value \in VoteValues : VoteComment(u, id, value)

SpecVotes == InitVotes /\ [][NextVotes]_vars

\* the target document of a vote request, in the given collections
VoteTarget(rq, ps, cs) == IF rq.op = "votePost" THEN ps[rq.id] ELSE cs[rq.id]
IsVote(rq, rs) == rq.op \in {"votePost", "voteComment"} /\ rs.status = 200

\* C4: after any sequence of votePost / voteComment requests, every post and
\* every comment has voteScore = (number of upvotes) - (number of downvotes).
C4_VoteScoreIsUpMinusDown ==
  /\ \A id \in DOMAIN posts :
       posts[id].voteScore = Len(posts[id].upvotes) - Len(posts[id].downvotes)
  /\ \A id \in DOMAIN comments :
       comments[id].voteScore = Len(comments[id].upvotes) - Len(comments[id].downvotes)

\* C4 witness: a post voted up by two users and a comment voted up and down
C4_Witness ==
  /\ 1 \in DOMAIN posts /\ 1 \in DOMAIN comments
  /\ Len(posts[1].upvotes) = 2 /\ posts[1].voteScore = 2
  /\ Len(comments[1].upvotes) = 1 /\ Len(comments[1].downvotes) = 1
  /\ comments[1].voteScore = 0

\* C5 as stated: two successive votes of actor A with the same value on target
\* T leave A with no vote on T and T.voteScore at its value before the first,
\* whatever A's vote on T was before the first.
C5_TwiceIsNoVote ==
  (IsVote(req, res) /\ pre.twice) =>
    LET after == VoteTarget(req, posts, comments) IN
    /\ VoteOf(after, req.user) = 0
    /\ after.voteScore = pre.firstScore

\* C5 amended: two successive votes of A with value v on T leave A with no vote
\* on T, unless A's vote before the first was v (then it is v again); and leave
\* T.voteScore at its value before the first, unless A's vote before the first
\* was the opposite of v (then it is that value plus v).
C5_TwiceFromAnyVote ==
  (IsVote(req, res) /\ pre.twice) =>
    LET after == VoteTarget(req, posts, comments)
        u == req.user
        v == req.value
    IN
    /\ VoteOf(after, u) = (IF pre.firstVote = v THEN v ELSE 0)
    /\ Occurrences(after.upvotes, u) + Occurrences(after.downvotes, u)
         = (IF pre.firstVote = v THEN 1 ELSE 0)
    /\ after.voteScore =
         (IF pre.firstVote = -v THEN pre.firstScore + v ELSE pre.firstScore)

\* C5 witness: user 1, who had upvoted post 1, has downvoted it twice in a
\* row: the post holds no vote of user 1 and stands one below its score
\* before the two requests
C5_Witness ==
  /\ IsVote(req, res) /\ pre.twice
  /\ req.op = "votePost" /\ req.id = 1 /\ req.user = 1 /\ req.value = -1
  /\ pre.firstVote = 1
  /\ VoteOf(posts[1], 1) = 0
  /\ posts[1].voteScore = pre.firstScore - 1

\* C6: a successful vote request follows the toggle table (no vote + v gives v,
\* a vote equal to v gives no vote, the opposite vote gives v), for posts and
\* for comments alike, and the response carries the persisted voteScore and
\* array lengths.
C6_ToggleTable ==
  [][IsVote(req', res') =>
       LET before == VoteTarget(req', posts, comments)
           after == VoteTarget(req', posts', comments')
           u == req'.user
           v == req'.value
       IN
       /\ VoteOf(after, u) = (IF VoteOf(before, u) = v THEN 0 ELSE v)
       /\ Occurrences(after.upvotes, u) = (IF VoteOf(after, u) = 1 THEN 1 ELSE 0)
       /\ Occurrences(after.downvotes, u) = (IF VoteOf(after, u) = -1 THEN 1 ELSE 0)
       /\ res'.data.voteScore = after.voteScore
       /\ res'.data.upvotes = Len(after.upvotes)
       /\ res'.data.downvotes = Len(after.downvotes)]_vars

\* C6 witness: a comment's downvote has just replaced the actor's upvote
C6_Witness ==
  /\ IsVote(req, res) /\ req.op = "voteComment" /\ req.value = -1
  /\ pre.vote = 1
  /\ VoteOf(comments[req.id], req.user) = -1
  /\ res.data.voteScore = comments[req.id].voteScore
  /\ res.data.downvotes = 1

\* ---------------------------------------------------- comment tree claims
RECURSIVE ReachesIn(_, _, _, _)
\* the parent chain of comment d in coll reaches comment c within n steps
ReachesIn(coll, d, c, n) ==
  /\ n > 0
  /\ d \in DOMAIN coll
  /\ \/ coll[d].parent = c
     \/ ReachesIn(coll, coll[d].parent, c, n - 1)

\* the direct and indirect replies of comment c in coll
Descendants(coll, c) == {d \in DOMAIN coll : ReachesIn(coll, d, c, Cardinality(DOMAIN coll))}

DeletedComment == req'.op = "deleteComment" /\ res'.status = 200

\* C1: after any sequence of addComment and deleteComment requests, every
\* post's commentCount is the number of comments that exist for that post.
C1_CommentCountIsNumberOfComments ==
  \A p \in DOMAIN posts :
    posts[p].commentCount = Cardinality({c \in DOMAIN comments : comments[c].post = p})

\* C2: a successful deleteComment(c) removes c and every comment whose parent
\* chain reached c, at any depth.
C2_CascadeIsTransitive ==
  [][DeletedComment =>
       \A d \in {req'.id} \cup Descendants(comments, req'.id) :
         d \notin DOMAIN comments']_vars

\* C3: a successful deleteComment on a comment with k direct and indirect
\* replies lowers the owning post's commentCount by exactly 1 + k.
C3_CountDropsByOnePlusDescendants ==
  [][DeletedComment =>
       LET p == comments[req'.id].post
           k == Cardinality(Descendants(comments, req'.id))
       IN posts'[p].commentCount = posts[p].commentCount - (1 + k)]_vars

\* ------------------------------------------------------------- membership
\* POST /api/communities/:name/join
JoinCommunity(u, name) ==
  LET rq == Req("joinCommunity", u, 0, name, 0, Null) IN
  /\ UNCHANGED <<posts, comments, nextPostId, nextCommentId, inflight>>
  /\ pre' = NoPre
  /\ IF name \notin DOMAIN communities
     THEN /\ Fail(rq, 404, "Community not found")
          /\ UNCHANGED communities
     ELSE IF Includes(communities[name].members, u)
     THEN /\ Fail(rq, 400, "User is already a member of this community")
          /\ UNCHANGED communities
     ELSE LET community == [communities[name] EXCEPT !.members = Append(@, u)] IN
          /\ communities' = [communities EXCEPT ![name] = PreSaveCommunity(community)]
          /\ Respond(rq, 200, MemberData(community))

\* leaveCommunity with its check of the creator after the write
LeaveCommunityThenCheck(u, name) ==
  LET rq == Req("leaveCommunity", u, 0, name, 0, Null) IN
  /\ UNCHANGED <<posts, comments, nextPostId, nextCommentId, inflight>>
  /\ pre' = NoPre
  /\ IF name \notin DOMAIN communities
     THEN /\ Fail(rq, 404, "Community not found")
          /\ UNCHANGED communities
     ELSE IF ~Includes(communities[name].members, u)
     THEN /\ Fail(rq, 400, "User is not a member of this community")
          /\ UNCHANGED communities
     ELSE LET community ==
                [communities[name] EXCEPT
                   !.members = FilterOut(@, u),
                   !.moderators = IF Includes(@, u) THEN FilterOut(@, u) ELSE @]
          IN
          /\ communities' = [communities EXCEPT ![name] = PreSaveCommunity(community)]
          /\ IF communities[name].creator = u
             THEN Fail(rq, 400, "Creator cannot leave the community")
             ELSE Respond(rq, 200, MemberData(community))

\* POST /api/communities/:name/leave
LeaveCommunity(u, name) ==
  LET rq == Req("leaveCommunity", u, 0, name, 0, Null) IN
  /\ UNCHANGED <<posts, comments, nextPostId, nextCommentId, inflight>>
  /\ pre' = NoPre
  /\ IF name \notin DOMAIN communities
     THEN /\ Fail(rq, 404, "Community not found")
          /\ UNCHANGED communities
     ELSE IF ~Includes(communities[name].members, u)
     THEN /\ Fail(rq, 400, "User is not a member of this community")
          /\ UNCHANGED communities
     ELSE IF communities[name].creator = u
     THEN /\ Fail(rq, 400, "Creator cannot leave the community")
          /\ UNCHANGED communities
     ELSE LET community ==
                [communities[name] EXCEPT
                   !.members = FilterOut(@, u),
                   !.moderators = IF Includes(@, u) THEN FilterOut(@, u) ELSE @]
          IN
          /\ communities' = [communities EXCEPT ![name] = PreSaveCommunity(community)]
          /\ Respond(rq, 200, MemberData(community))

\* the paths of the Community schema a request body can set, each with the
\* values drawn for it; name is in the list because the handler deletes it
UpdateBodies ==
  {("name" :> "bar"), ("memberCount" :> 0), ("memberCount" :> NumUsers + 1)}
  \cup {("members" :> m) : m \in {<<>>} \cup {<<u>> : u \in Users}}
  \cup {("moderators" :> <<u>>) : u \in Users}
  \cup {("creator" :> u) : u \in Users}

\* Community.findByIdAndUpdate(_id, body): the paths of body are $set, no
\* save hook runs
FindByIdAndUpdate(doc, body) ==
  [f \in DOMAIN doc |-> IF f \in DOMAIN body THEN body[f] ELSE doc[f]]

\* PUT /api/communities/:name
UpdateCommunity(u, name, body) ==
  LET rq == Req("updateCommunity", u, 0, name, 0, Null) IN
  /\ UNCHANGED <<posts, comments, nextPostId, nextCommentId, inflight>>
  /\ pre' = NoPre
  /\ IF name \notin DOMAIN communities
     THEN /\ Fail(rq, 404, "Community not found")
          /\ UNCHANGED communities
     ELSE IF ~Includes(communities[name].moderators, u)
     THEN /\ Fail(rq, 401, "Not authorized to update this community")
          /\ UNCHANGED communities
     ELSE LET kept == [f \in DOMAIN body \ {"name"} |-> body[f]]
              community == FindByIdAndUpdate(communities[name], kept)
          IN
          /\ communities' = [communities EXCEPT ![name] = community]
          /\ Respond(rq, 200, CommunityData(community))

NextMembers ==
  \/ \E u \in Users, name \in CommunityNames, valid \in BOOLEAN :
       CreateCommunity(u, name, valid)
  \/ \E u \in Users, name \in CommunityNames : JoinCommunity(u, name)
  \/ \E u \in Users, name \in CommunityNames : LeaveCommunity(u, name)

SpecMembers == Init /\ [][NextMembers]_vars

NextCommunities ==
  \/ NextMembers
  \/ \E u \in Users, name \in CommunityNames, body \in UpdateBodies :
       UpdateCommunity(u, name, body)

SpecCommunities == Init /\ [][NextCommunities]_vars

\* C9: after any sequence of createCommunity, joinCommunity and leaveCommunity
\* requests, every community's memberCount is the length of its members, and
\* the memberCount a join or leave returns is the persisted one.
C9_MemberCountIsNumberOfMembers ==
  /\ \A name \in DOMAIN communities :
       communities[name].memberCount = Len(communities[name].members)
  /\ (req.op \in {"joinCommunity", "leaveCommunity"} /\ res.status = 200) =>
       res.data.memberCount = communities[req.name].memberCount

\* C9 witness: a leave has just succeeded on one community (back to its
\* creator alone) while the other holds two members
C9_Witness ==
  /\ req.op = "leaveCommunity" /\ res.status = 200 /\ res.data.memberCount = 1
  /\ \E name \in DOMAIN communities :
       /\ name # req.name
       /\ Len(communities[name].members) = 2
       /\ communities[name].memberCount = 2

\* C10: memberCount equals the length of members after every mutation of a
\* community, updateCommunity with any request body included.
C10_MemberCountAfterUpdate ==
  \A name \in DOMAIN communities :
    communities[name].memberCount = Len(communities[name].members)

\* ------------------------------------------------------ interleaved votes
\* A handler runs from one await to the next without interruption; requests
\* interleave at the awaits on the store. A vote handler awaits findById and
\* then save(). Reqs are the requests of a run: inflight[r] holds request r
\* and the document it read while r is between the two.

\* the version key of the document read by slot s is no longer the stored one
\* once another save() on that document has sent an array update
Staled(r, op, id) ==
  [s \in Reqs |->
     IF s = r THEN Done
     ELSE IF inflight[s].pc = "save" /\ inflight[s].rq.op = op /\ inflight[s].rq.id = id
     THEN [inflight[s] EXCEPT !.stale = TRUE]
     ELSE inflight[s]]

\* votePost, to its await on Post.findById
VotePostFind(r, u, id, value) ==
  LET rq == Req("votePost", u, id, "", value, Null) IN
  /\ inflight[r].pc = "idle"
  /\ UNCHANGED <<communities, posts, comments, nextPostId, nextCommentId>>
  /\ IF value # 1 /\ value # -1
     THEN /\ Fail(rq, 400, "Vote value must be 1 or -1")
          /\ pre' = NoPre
          /\ inflight' = [inflight EXCEPT ![r] = Done]
     ELSE IF id \notin DOMAIN posts
     THEN /\ Fail(rq, 404, "Post not found")
          /\ pre' = NoPre
          /\ inflight' = [inflight EXCEPT ![r] = Done]
     ELSE /\ inflight' = [inflight EXCEPT ![r] =
                            [pc |-> "save", rq |-> rq, doc |-> posts[id], stale |-> FALSE]]
          /\ UNCHANGED <<req, res, pre>>

\* votePost, from the document found to the response
VotePostSave(r) ==
  /\ inflight[r].pc = "save"
  /\ inflight[r].rq.op = "votePost"
  /\ LET rq == inflight[r].rq
         read == inflight[r].doc
     IN
     /\ UNCHANGED <<communities, comments, nextPostId, nextCommentId>>
     /\ IF rq.id \notin DOMAIN posts \/ (VersionedVote(read, rq.user) /\ inflight[r].stale)
        THEN \* save() rejects (DocumentNotFoundError, VersionError): next(err)
             /\ Fail(rq, 500, "Server error")
             /\ pre' = NoPre
             /\ UNCHANGED posts
             /\ inflight' = [inflight EXCEPT ![r] = Done]
        ELSE /\ posts' = [posts EXCEPT ![rq.id] = SaveVote(@, read, rq.user, rq.value)]
             /\ Respond(rq, 200, VoteData(PreSaveVotes(CastVote(read, rq.user, rq.value))))
             /\ pre' = PreOf(read, rq)
             /\ inflight' = Staled(r, "votePost", rq.id)

\* voteComment, to its await on Comment.findById
VoteCommentFind(r, u, id, value) ==
  LET rq == Req("voteComment", u, id, "", value, Null) IN
  /\ inflight[r].pc = "idle"
  /\ UNCHANGED <<communities, posts, comments, nextPostId, nextCommentId>>
  /\ IF value # 1 /\ value # -1
     THEN /\ Fail(rq, 400, "Vote value must be 1 or -1")
          /\ pre' = NoPre
          /\ inflight' = [inflight EXCEPT ![r] = Done]
     ELSE IF id \notin DOMAIN comments
     THEN /\ Fail(rq, 404, "Comment not found")
          /\ pre' = NoPre
          /\ inflight' = [inflight EXCEPT ![r] = Done]
     ELSE /\ inflight' = [inflight EXCEPT ![r] =
                            [pc |-> "save", rq |-> rq, doc |-> comments[id], stale |-> FALSE]]
          /\ UNCHANGED <<req, res, pre>>

\* voteComment, from the document found to the response
VoteCommentSave(r) ==
  /\ inflight[r].pc = "save"
  /\ inflight[r].rq.op = "voteComment"
  /\ LET rq == inflight[r].rq
         read == inflight[r].doc
     IN
     /\ UNCHANGED <<communities, posts, nextPostId, nextCommentId>>
     /\ IF rq.id \notin DOMAIN comments \/ (VersionedVote(read, rq.user) /\ inflight[r].stale)
        THEN /\ Fail(rq, 500, "Server error")
             /\ pre' = NoPre
             /\ UNCHANGED comments
             /\ inflight' = [inflight EXCEPT ![r] = Done]
        ELSE /\ comments' = [comments EXCEPT ![rq.id] = SaveVote(@, read, rq.user, rq.value)]
             /\ Respond(rq, 200, VoteData(PreSaveVotes(CastVote(read, rq.user, rq.value))))
             /\ pre' = PreOf(read, rq)
             /\ inflight' = Staled(r, "voteComment", rq.id)

Quiescent == \A r \in Reqs : inflight[r].pc # "save"

\* no request of user u is between its awaits
NotInFlight(u) == \A r \in Reqs : inflight[r].pc = "save" => inflight[r].rq.user # u

NextVotesInterleaved ==
  \/ \E r \in Reqs, u \in Users, id \in SomePostIds, value \in VoteValues :
       VotePostFind(r, u, id, value)
  \/ \E r \in Reqs : VotePostSave(r)
  \/ \E r \in Reqs, u \in Users, id \in SomeCommentIds, value \in VoteValues :
       VoteCommentFind(r, u, id, value)
  \/ \E r \in Reqs : VoteCommentSave(r)

\* vote requests of any actors, interleaved
SpecVotesInterleaved == InitVotes /\ [][NextVotesInterleaved]_vars

NextVotesOfDistinctActors ==
  \/ \E r \in Reqs, u \in Users, id \in SomePostIds, value \in VoteValues :
       NotInFlight(u) /\ VotePostFind(r, u, id, value)
  \/ \E r \in Reqs : VotePostSave(r)
  \/ \E r \in Reqs, u \in Users, id \in SomeCommentIds, value \in VoteValues :
       NotInFlight(u) /\ VoteCommentFind(r, u, id, value)
  \/ \E r \in Reqs : VoteCommentSave(r)

\* vote requests interleaved, the concurrent ones of different actors
SpecVotesOfDistinctActors == InitVotes /\ [][NextVotesOfDistinctActors]_vars

\* C7: every user occurs at most once in a target's upvotes, at most once in
\* its downvotes and never in both, also when vote requests of one user on one
\* target interleave.
C7_AtMostOneVotePerUser ==
  \A u \in Users :
    /\ \A id \in DOMAIN posts :
         Occurrences(posts[id].upvotes, u) + Occurrences(posts[id].downvotes, u) <= 1
    /\ \A id \in DOMAIN comments :
         Occurrences(comments[id].upvotes, u) + Occurrences(comments[id].downvotes, u) <= 1

\* C8: once concurrent vote requests of different actors on a target have all
\* completed, no update is lost: the target's voteScore is the length of its
\* upvotes minus the length of its downvotes.
C8_NoLostVoteUpdate ==
  Quiescent =>
    /\ \A id \in DOMAIN posts :
         posts[id].voteScore = Len(posts[id].upvotes) - Len(posts[id].downvotes)
    /\ \A id \in DOMAIN comments :
         comments[id].voteScore = Len(comments[id].upvotes) - Len(comments[id].downvotes)

\* ------------------------------------------------- membership: the creator
\* the request handled by this step is a leaveCommunity of the creator of an
\* existing community
LeaveByCreator ==
  /\ req'.op = "leaveCommunity"
  /\ req'.name \in DOMAIN communities
  /\ req'.user = communities[req'.name].creator

\* C11: the creator of a community can never leave it: in every reachable
\* state the creator of every community is one of its members, and a
\* leaveCommunity of the creator is rejected and leaves members, moderators and
\* memberCount as they were.
C11_CreatorNeverLeaves ==
  [][/\ \A name \in DOMAIN communities' :
          Includes(communities'[name].members, communities'[name].creator)
     /\ LeaveByCreator =>
          /\ res'.status # 200
          /\ communities' = communities]_vars

\* C11, the part about the request alone: whatever the state, a leaveCommunity
\* of the creator is answered 400 and writes nothing.
C11_LeaveByCreatorIsRejected ==
  [][LeaveByCreator => (res'.status = 400 /\ communities' = communities)]_vars

\* ------------------------------------------- membership: one community
\* a body whose members list holds a user twice
TwiceBodies == {("members" :> <<1, 1>>)}

\* the requests on one community, updateCommunity with every body included
NextOneCommunity ==
  \/ \E u \in Users, valid \in BOOLEAN : CreateCommunity(u, "foo", valid)
  \/ \E u \in Users : JoinCommunity(u, "foo")
  \/ \E u \in Users : LeaveCommunity(u, "foo")
  \/ \E u \in Users, body \in UpdateBodies \cup TwiceBodies :
       UpdateCommunity(u, "foo", body)

SpecOneCommunity == Init /\ [][NextOneCommunity]_vars

\* every moderator of the community is one of its members
ModeratorsAreMembers(community) ==
  \A i \in 1..Len(community.moderators) :
    Includes(community.members, community.moderators[i])

\* C12: a successful leaveCommunity(C, A) removes A from the members of C and,
\* when A was a moderator, from its moderators, and leaves every other member
\* and moderator (and every other community) in place; consequently no
\* createCommunity, joinCommunity or leaveCommunity step breaks "moderators is
\* a subset of members".
C12_LeaveRemovesOnlyTheActor ==
  [][/\ (req'.op = "leaveCommunity" /\ res'.status = 200) =>
          LET old == communities[req'.name]
              new == communities'[req'.name]
          IN
          /\ ~Includes(new.members, req'.user)
          /\ ~Includes(new.moderators, req'.user)
          /\ \A v \in Users \ {req'.user} :
               /\ Occurrences(new.members, v) = Occurrences(old.members, v)
               /\ Occurrences(new.moderators, v) = Occurrences(old.moderators, v)
          /\ new.creator = old.creator
          /\ \A name \in DOMAIN communities \ {req'.name} :
               communities'[name] = communities[name]
     /\ req'.op \in {"createCommunity", "joinCommunity", "leaveCommunity"} =>
          \A name \in DOMAIN communities' :
            (name \in DOMAIN communities => ModeratorsAreMembers(communities[name]))
              => ModeratorsAreMembers(communities'[name])]_vars

\* C12 witness: a moderator has just left (updateCommunity sets no empty
\* moderators, so the list is empty only because its one moderator left) and
\* the other member is still there
C12_Witness ==
  /\ req.op = "leaveCommunity" /\ res.status = 200
  /\ communities[req.name].moderators = <<>>
  /\ Len(communities[req.name].members) >= 1
  /\ ~Includes(communities[req.name].members, req.user)

\* ------------------------------------------------ membership: conflicts
\* the request handled by this step is a joinCommunity of a member, or a
\* leaveCommunity of a user who is no member, of an existing community
JoinByMember ==
  /\ req'.op = "joinCommunity"
  /\ req'.name \in DOMAIN communities
  /\ Includes(communities[req'.name].members, req'.user)

LeaveByNonMember ==
  /\ req'.op = "leaveCommunity"
  /\ req'.name \in DOMAIN communities
  /\ ~Includes(communities[req'.name].members, req'.user)

\* C13, the part about the two requests alone: each is answered 400 with the
\* message of its conflict and writes nothing.
C13_ConflictsWriteNothing ==
  [][/\ JoinByMember =>
          /\ res'.status = 400
          /\ res'.error = "User is already a member of this community"
          /\ communities' = communities
     /\ LeaveByNonMember =>
          /\ res'.status = 400
          /\ res'.error = "User is not a member of this community"
          /\ communities' = communities]_vars

\* C13: joinCommunity of a member and leaveCommunity of a non-member fail with
\* a conflict and leave the community unchanged; hence, requests handled one
\* after the other, no user is twice in the members of a community.
C13_NoMemberTwice ==
  [][/\ JoinByMember => (res'.status = 400 /\ communities' = communities)
     /\ LeaveByNonMember => (res'.status = 400 /\ communities' = communities)
     /\ \A name \in DOMAIN communities' : \A u \in Users :
          Occurrences(communities'[name].members, u) <= 1]_vars

\* ------------------------------------------------------- createCommunity
\* C14: createCommunity by user U with a name no community has (and a body
\* that passes validation) yields a community whose creator is U, whose
\* moderators and members are exactly U and whose memberCount is 1;
\* createCommunity with the name of an existing community fails and creates
\* nothing, so there is one community of a name at most.
C14_CreateCommunity ==
  [][req'.op = "createCommunity" =>
       IF req'.name \in DOMAIN communities
       THEN /\ res'.status = 400
            /\ communities' = communities
       ELSE \/ /\ res'.status = 400
               /\ res'.error = "validation"
               /\ communities' = communities
            \/ /\ res'.status = 201
               /\ DOMAIN communities' = DOMAIN communities \cup {req'.name}
               /\ communities'[req'.name] =
                    [creator |-> req'.user, moderators |-> <<req'.user>>,
                     members |-> <<req'.user>>, memberCount |-> 1]
               /\ res'.data.memberCount = 1
               /\ \A name \in DOMAIN communities :
                    communities'[name] = communities[name]]_vars

\* C14 witness: the name of a community another user created has just been
\* refused, and that community is as it was created
C14_Witness ==
  /\ req.op = "createCommunity" /\ res.status = 400
  /\ res.error = "Community with that name already exists"
  /\ req.name \in DOMAIN communities
  /\ communities[req.name].creator # req.user
  /\ communities[req.name].members = <<communities[req.name].creator>>
  /\ communities[req.name].moderators = <<communities[req.name].creator>>
  /\ communities[req.name].memberCount = 1

\* ------------------------------------------------ addComment: the parent
\* C15: addComment on an existing post with valid content and a parent that
\* is the _id of no comment fails with 404, creates no comment and leaves
\* commentCount unchanged.
C15_MissingParentIsNotFound ==
  [][(/\ req'.op = "addComment"
      /\ req'.id \in DOMAIN posts
      /\ res'.error # "validation"
      /\ req'.parent # Null
      /\ req'.parent \notin DOMAIN comments)
       => /\ res'.status = 404
          /\ comments' = comments
          /\ posts' = posts]_vars

\* --------------------------------------- posts and comments: update, delete
\* the paths of the Post schema a request body can set, each with the values
\* drawn for it
PostBodies ==
  {("title" :> "edited"), ("community" :> "bar"), ("commentCount" :> 0), ("voteScore" :> 1)}
  \cup {("author" :> u) : u \in Users}

\* PUT /api/posts/:id
UpdatePost(u, id, body) ==
  LET rq == Req("updatePost", u, id, "", 0, Null) IN
  /\ UNCHANGED <<communities, comments, nextPostId, nextCommentId, inflight>>
  /\ pre' = NoPre
  /\ IF id \notin DOMAIN posts
     THEN /\ Fail(rq, 404, "Post not found")
          /\ UNCHANGED posts
     ELSE IF posts[id].author # u
     THEN /\ Fail(rq, 401, "Not authorized to update this post")
          /\ UNCHANGED posts
     ELSE /\ posts' = [posts EXCEPT ![id] = FindByIdAndUpdate(posts[id], body)]
          /\ Respond(rq, 200, NoData)

\* a deleteMany that reaches the top-level comments of the post only
DeleteTopLevelCommentsOf(coll, id) ==
  Without(coll, {c \in DOMAIN coll : coll[c].post = id /\ coll[c].parent = Null})
\* Comment.deleteMany({ post: id })
DeleteCommentsOf(coll, id) == Without(coll, {c \in DOMAIN coll : coll[c].post = id})

\* deletePost without its check of the actor
DeletePostByAnyone(u, id) ==
  LET rq == Req("deletePost", u, id, "", 0, Null) IN
  /\ UNCHANGED <<communities, nextPostId, nextCommentId, inflight>>
  /\ pre' = NoPre
  /\ IF id \notin DOMAIN posts
     THEN /\ Fail(rq, 404, "Post not found")
          /\ UNCHANGED <<posts, comments>>
     ELSE /\ comments' = DeleteCommentsOf(comments, id)
          /\ posts' = Without(posts, {id})
          /\ Respond(rq, 200, NoData)

\* DELETE /api/posts/:id
DeletePost(u, id) ==
  LET rq == Req("deletePost", u, id, "", 0, Null) IN
  /\ UNCHANGED <<communities, nextPostId, nextCommentId, inflight>>
  /\ pre' = NoPre
  /\ IF id \notin DOMAIN posts
     THEN /\ Fail(rq, 404, "Post not found")
          /\ UNCHANGED <<posts, comments>>
     ELSE IF posts[id].community \notin DOMAIN communities
     THEN \* community is null: community.moderators throws, the error middleware answers
          /\ Fail(rq, 500, "Server error")
          /\ UNCHANGED <<posts, comments>>
     ELSE LET post == posts[id]
              isModerator == Includes(communities[post.community].moderators, u)
          IN
          IF post.author # u /\ ~isModerator
          THEN /\ Fail(rq, 401, "Not authorized to delete this post")
               /\ UNCHANGED <<posts, comments>>
          ELSE /\ comments' = DeleteCommentsOf(comments, id)
               /\ posts' = Without(posts, {id})
               /\ Respond(rq, 200, NoData)

\* the content of a request body: empty, which the route's validator refuses, or not
Contents == {"", "edited"}

\* PUT /api/comments/:id
UpdateComment(u, id, content) ==
  LET rq == Req("updateComment", u, id, "", 0, Null) IN
  /\ UNCHANGED <<communities, posts, nextPostId, nextCommentId, inflight>>
  /\ pre' = NoPre
  /\ IF content = ""
     THEN /\ Fail(rq, 400, "validation")
          /\ UNCHANGED comments
     ELSE IF id \notin DOMAIN comments
     THEN /\ Fail(rq, 404, "Comment not found")
          /\ UNCHANGED comments
     ELSE IF comments[id].author # u
     THEN /\ Fail(rq, 401, "Not authorized to update this comment")
          /\ UNCHANGED comments
     ELSE /\ comments' = [comments EXCEPT ![id] =
                            FindByIdAndUpdate(comments[id], ("content" :> content))]
          /\ Respond(rq, 200, NoData)

\* ------------------------------------------------------------ moderation
\* a store the create requests lead to: community foo of user 1; in it post 1
\* of user 1, with a comment of user NumUsers and a reply of user 1 to it, and
\* post 2 of user NumUsers, with a comment of user 1
InitForum ==
  /\ communities = ("foo" :> [creator |-> 1, moderators |-> <<1>>,
                              members |-> <<1>>, memberCount |-> 1])
  /\ posts = (1 :> [title |-> "title", author |-> 1, community |-> "foo",
                    upvotes |-> <<>>, downvotes |-> <<>>, voteScore |-> 0,
                    commentCount |-> 2])
             @@ (2 :> [title |-> "title", author |-> NumUsers, community |-> "foo",
                       upvotes |-> <<>>, downvotes |-> <<>>, voteScore |-> 0,
                       commentCount |-> 1])
  /\ comments = (1 :> [content |-> "content", author |-> NumUsers, post |-> 1,
                       parent |-> Null, upvotes |-> <<>>, downvotes |-> <<>>,
                       voteScore |-> 0])
                @@ (2 :> [content |-> "content", author |-> 1, post |-> 1,
                          parent |-> 1, upvotes |-> <<>>, downvotes |-> <<>>,
                          voteScore |-> 0])
                @@ (3 :> [content |-> "content", author |-> 1, post |-> 2,
                          parent |-> Null, upvotes |-> <<>>, downvotes |-> <<>>,
                          voteScore |-> 0])
  /\ nextPostId = 3
  /\ nextCommentId = 4
  /\ req = Req("addComment", 1, 2, "", 0, Null)
  /\ res = [status |-> 201, error |-> "", data |-> NoData]
  /\ pre = NoPre
  /\ inflight = [r \in Reqs |-> Idle]

\* bodies that edit the title of the post, or hand it to the last user
EditBodies == {("title" :> "edited"), ("author" :> NumUsers)}
\* bodies that name another moderator
ModeratorBodies == {("moderators" :> <<u>>) : u \in Users}

\* the requests whose actor the handler authorizes, on stored and missing targets
NextModeration ==
  \/ \E u \in Users, id \in SomePostIds, body \in EditBodies : UpdatePost(u, id, body)
  \/ \E u \in Users, id \in SomePostIds : DeletePost(u, id)
  \/ \E u \in Users, id \in SomeCommentIds, content \in Contents :
       UpdateComment(u, id, content)
  \/ \E u \in Users, id \in SomeCommentIds : DeleteComment(u, id)
  \/ \E u \in Users, name \in CommunityNames, body \in ModeratorBodies :
       UpdateCommunity(u, name, body)

SpecModeration == InitForum /\ [][NextModeration]_vars

\* the policy table of section 4.5, on the store before the request: rq is on
\* a stored resource, and its actor is one the table permits
OnStored(rq) ==
  CASE rq.op \in {"updatePost", "deletePost"} -> rq.id \in DOMAIN posts
    [] rq.op \in {"updateComment", "deleteComment"} -> rq.id \in DOMAIN comments
    [] rq.op = "updateCommunity" -> rq.name \in DOMAIN communities
    [] OTHER -> FALSE

Permitted(rq) ==
  CASE rq.op = "updatePost" -> posts[rq.id].author = rq.user
    [] rq.op = "deletePost" ->
         \/ posts[rq.id].author = rq.user
         \/ \E i \in 1..Len(communities[posts[rq.id].community].moderators) :
              communities[posts[rq.id].community].moderators[i] = rq.user
    [] rq.op = "updateComment" -> comments[rq.id].author = rq.user
    [] rq.op = "deleteComment" ->
         \/ comments[rq.id].author = rq.user
         \/ posts[comments[rq.id].post].author = rq.user
    [] rq.op = "updateCommunity" ->
         \E i \in 1..Len(communities[rq.name].moderators) :
           communities[rq.name].moderators[i] = rq.user
    [] OTHER -> FALSE

InitRequests ==
  /\ communities = ("foo" :> [creator |-> 1, moderators |-> <<1>>,
                              members |-> <<1>>, memberCount |-> 1])
  /\ posts = (1 :> [title |-> "title", author |-> 1, community |-> "foo",
                    upvotes |-> <<>>, downvotes |-> <<>>, voteScore |-> 0,
                    commentCount |-> 2])
  /\ comments = (1 :> [content |-> "content", author |-> 1, post |-> 1,
                       parent |-> Null, upvotes |-> <<>>, downvotes |-> <<>>,
                       voteScore |-> 0])
                @@ (2 :> [content |-> "content", author |-> NumUsers, post |-> 1,
                          parent |-> 1, upvotes |-> <<>>, downvotes |-> <<>>,
                          voteScore |-> 0])
  /\ nextPostId = MaxPosts
  /\ nextCommentId = MaxComments
  /\ req = Req("addComment", NumUsers, 1, "", 0, 1)
  /\ res = [status |-> 201, error |-> "", data |-> NoData]
  /\ pre = NoPre
  /\ inflight = [r \in Reqs |-> Idle]

\* the first and the last user: the author, creator and moderator of the
\* store above, and a user who is none of them
Actors == {1, NumUsers}
\* the community of the store above, and a name no community has
FooOrMissing == {"foo", "baz"}
\* bodies that edit the title of the post
TitleBodies == {("title" :> "edited")}
\* bodies that make the last user the moderator
LastModeratorBodies == {("moderators" :> <<NumUsers>>)}
\* an upvote, and a value that is no vote
UpOrInvalid == {1, 0}
\* the first comment, and the _id of no comment
FirstOrMissing == {1, nextCommentId}

\* every request section 7 names, on stored and missing targets; the votes
\* are those of user 1
NextRequests ==
  \/ \E name \in CommunityNames, valid \in BOOLEAN : CreateCommunity(1, name, valid)
  \/ \E u \in Actors, name \in FooOrMissing : JoinCommunity(u, name)
  \/ \E u \in Actors, name \in FooOrMissing : LeaveCommunity(u, name)
  \/ \E u \in Actors, name \in FooOrMissing, body \in LastModeratorBodies :
       UpdateCommunity(u, name, body)
  \/ \E u \in Actors, id \in SomePostIds, body \in TitleBodies : UpdatePost(u, id, body)
  \/ \E u \in Actors, id \in SomePostIds : DeletePost(u, id)
  \/ \E id \in SomePostIds, value \in UpOrInvalid : VotePost(1, id, value)
  \/ \E u \in Actors, id \in SomePostIds, parent \in {Null} \cup DOMAIN comments,
        contentOk \in BOOLEAN :
       AddComment(u, id, parent, contentOk)
  \/ \E u \in Actors, id \in SomeCommentIds : DeleteComment(u, id)
  \/ \E id \in FirstOrMissing, value \in UpOrInvalid : VoteComment(1, id, value)

SpecRequests == InitRequests /\ [][NextRequests]_vars

\* C17: a request (vote, addComment, deleteComment, updatePost, deletePost,
\* joinCommunity, leaveCommunity, createCommunity, updateCommunity) answered
\* with a validation error, not found, a conflict or an authorization failure
\* (400, 404, 401) leaves the whole store exactly as it was.
C17_FailuresWriteNothing ==
  [][res'.status \in {400, 401, 404} => store' = store]_vars

\* C17 witness: the creator of a community of two members has just been
\* refused to leave it, after the post was deleted
C17_Witness ==
  /\ req.op = "leaveCommunity" /\ res.status = 400
  /\ res.error = "Creator cannot leave the community"
  /\ Len(communities[req.name].members) = 2
  /\ posts = <<>>

\* ------------------------------------------------------------ error kinds
\* the status the handlers answer for each error kind of section 7
NotFound == 404
Forbidden == 401
Conflict == 400

\* rq is on a post, a comment or a community that is not stored
OnMissing(rq) ==
  CASE rq.op \in {"updatePost", "deletePost", "votePost", "addComment"} ->
         rq.id \notin DOMAIN posts
    [] rq.op \in {"updateComment", "deleteComment", "voteComment"} ->
         rq.id \notin DOMAIN comments
    [] rq.op \in {"joinCommunity", "leaveCommunity", "updateCommunity"} ->
         rq.name \notin DOMAIN communities
    [] OTHER -> FALSE

\* the body of the request was refused before any lookup
RefusedBody(rs) ==
  rs.status = 400 /\ rs.error \in {"validation", "Vote value must be 1 or -1"}

\* C18, the part about missing resources and actors: a request with a valid
\* body on a resource that is not stored is answered 404 whoever the actor is,
\* and one on a stored resource by an actor the policy table does not permit
\* is answered 401.
C18_NotFoundThenForbidden ==
  [][~RefusedBody(res') =>
       /\ OnMissing(req') => res'.status = NotFound
       /\ (OnStored(req') /\ ~Permitted(req')) => res'.status = Forbidden]_vars

\* C18: error kinds are distinguishable and ordered: not found for a resource
\* that is not stored, whoever the actor; forbidden for an authorization
\* failure on a stored resource; and forbidden for a leaveCommunity of the
\* creator, a kind other than the conflict of a leaveCommunity of a non-member
\* or a joinCommunity of a member.
C18_ErrorKinds ==
  [][/\ ~RefusedBody(res') =>
          /\ OnMissing(req') => res'.status = NotFound
          /\ (OnStored(req') /\ ~Permitted(req')) => res'.status = Forbidden
     /\ (JoinByMember \/ LeaveByNonMember) => res'.status = Conflict
     /\ (LeaveByCreator /\ ~LeaveByNonMember) =>
          /\ res'.status = Forbidden
          /\ res'.status # Conflict]_vars

\* ------------------------------------------------------------- deletePost
\* C19: after a successful deletePost(P), P is no longer stored and no comment
\* with post = P is stored, replies at any depth included; the comments of
\* other posts are as they were.
C19_DeletePostCascades ==
  [][(req'.op = "deletePost" /\ res'.status = 200) =>
       /\ req'.id \in DOMAIN posts
       /\ req'.id \notin DOMAIN posts'
       /\ \A c \in DOMAIN comments' : comments'[c].post # req'.id
       /\ \A c \in DOMAIN comments :
            comments[c].post # req'.id =>
              (c \in DOMAIN comments' /\ comments'[c] = comments[c])]_vars

\* C19 witness: post 1 has just been deleted; its comment and the reply to it
\* went with it, the comment of the other post is there
C19_Witness ==
  /\ req.op = "deletePost" /\ req.id = 1 /\ res.status = 200
  /\ 1 \notin DOMAIN posts
  /\ DOMAIN comments = {3}
  /\ comments[3].post = 2 /\ 2 \in DOMAIN posts

\* ------------------------------------------------------------- updatePost
\* the requests on a post, updatePost with every body included
NextPosts ==
  \/ \E u \in Users, id \in SomePostIds, body \in PostBodies : UpdatePost(u, id, body)
  \/ \E u \in Users, id \in SomePostIds, value \in VoteValues : VotePost(u, id, value)
  \/ \E u \in Users, id \in SomePostIds : DeletePost(u, id)

SpecPosts == InitVotes /\ [][NextPosts]_vars

\* C20: the author and the community of a post are immutable: no request,
\* updatePost by the author with any body included, changes them on a stored
\* post, and its upvotes, downvotes, voteScore and commentCount are changed by
\* vote, addComment and deleteComment only.
C20_AuthorAndCommunityImmutable ==
  [][\A id \in DOMAIN posts \cap DOMAIN posts' :
       /\ posts'[id].author = posts[id].author
       /\ posts'[id].community = posts[id].community
       /\ req'.op \notin {"votePost", "addComment", "deleteComment"} =>
            /\ posts'[id].upvotes = posts[id].upvotes
            /\ posts'[id].downvotes = posts[id].downvotes
            /\ posts'[id].voteScore = posts[id].voteScore
            /\ posts'[id].commentCount = posts[id].commentCount]_vars

\* C20, the part about the other requests: a step that is no updatePost
\* changes neither the author nor the community of a stored post.
C20_OnlyUpdatePostRewrites ==
  [][req'.op # "updatePost" =>
       \A id \in DOMAIN posts \cap DOMAIN posts' :
         /\ posts'[id].author = posts[id].author
         /\ posts'[id].community = posts[id].community]_vars

\* -------------------------------------------------------- updateCommunity
\* C21: the creator and the name of a community are immutable: no request,
\* updateCommunity by a moderator with any body included, changes the creator
\* of a stored community or the name it is stored under.
C21_CreatorAndNameImmutable ==
  [][\A name \in DOMAIN communities :
       /\ name \in DOMAIN communities'
       /\ communities'[name].creator = communities[name].creator]_vars

\* C21, the part about the name: the handler deletes name from the body, so
\* every community stays stored under its name, a body that names another
\* name included.
C21_NameImmutable ==
  [][\A name \in DOMAIN communities : name \in DOMAIN communities']_vars

\* ------------------------------------------------------- getPostComments
\* a sort that orders by nothing: every order of ids
AnyOrder(coll, ids) ==
  {s \in [1..Cardinality(ids) -> ids] : \A i, j \in DOMAIN s : i # j => s[i] # s[j]}

\* .sort('-voteScore'): the orders of ids by descending voteScore; the store
\* fixes no order among comments of one voteScore
Sorted(coll, ids) ==
  {s \in [1..Cardinality(ids) -> ids] :
     /\ \A i, j \in DOMAIN s : i # j => s[i] # s[j]
     /\ \A i, j \in DOMAIN s : i < j => coll[s[i]].voteScore >= coll[s[j]].voteScore}

RECURSIVE GetCommentWithReplies(_, _)
RECURSIVE WithReplies(_, _, _)

\* the for loop over the sorted comments, from the i-th on: each comment as an
\* object with its replies
WithReplies(coll, order, i) ==
  IF i > Len(order) THEN {<<>>}
  ELSE {<<[id |-> order[i], voteScore |-> coll[order[i]].voteScore, replies |-> replies]>>
          \o rest :
          replies \in GetCommentWithReplies(coll, order[i]),
          rest \in WithReplies(coll, order, i + 1)}

\* getCommentWithReplies: Comment.find({ parent: comment._id }), sorted, each
\* reply with its own replies
GetCommentWithReplies(coll, id) ==
  UNION {WithReplies(coll, order, 1) :
           order \in Sorted(coll, {c \in DOMAIN coll : coll[c].parent = id})}

\* Comment.find({ post: id, parent: null }), sorted, each comment with its replies
CommentsWithReplies(coll, id) ==
  UNION {WithReplies(coll, order, 1) :
           order \in Sorted(coll, {c \in DOMAIN coll :
                                     coll[c].post = id /\ coll[c].parent = Null})}

\* GET /api/posts/:id/comments
GetPostComments(id) ==
  LET rq == Req("getPostComments", 0, id, "", 0, Null) IN
  /\ UNCHANGED <<communities, posts, comments, nextPostId, nextCommentId, inflight>>
  /\ pre' = NoPre
  /\ IF id \notin DOMAIN posts
     THEN Fail(rq, 404, "Post not found")
     ELSE \E thread \in CommentsWithReplies(comments, id) :
            Respond(rq, 200, ThreadData(thread))

\* comments added, voted on and deleted by user 1, the author of the post, and
\* read as a thread
NextThread ==
  \/ \E id \in SomePostIds, parent \in {Null} \cup DOMAIN comments :
       AddComment(1, id, parent, TRUE)
  \/ \E id \in SomeCommentIds, value \in VoteValues : VoteComment(1, id, value)
  \/ \E id \in SomeCommentIds : DeleteComment(1, id)
  \/ \E id \in SomePostIds : GetPostComments(id)

SpecThread == InitRequests /\ [][NextThread]_vars

RECURSIVE LevelIsRight(_, _)
\* level lists exactly the comments ids, each once, none after one of a lower
\* voteScore, each with the voteScore stored for it, and the replies of each
\* are, in the same way, the comments whose parent it is
LevelIsRight(level, ids) ==
  /\ Len(level) = Cardinality(ids)
  /\ {level[i].id : i \in DOMAIN level} = ids
  /\ \A i \in DOMAIN level : level[i].voteScore = comments[level[i].id].voteScore
  /\ \A i, j \in DOMAIN level : i < j => level[i].voteScore >= level[j].voteScore
  /\ \A i \in DOMAIN level :
       LevelIsRight(level[i].replies,
                    {c \in DOMAIN comments : comments[c].parent = level[i].id})

RECURSIVE ThreadIds(_)
\* the ids of a thread, one entry for every place a comment appears at
ThreadIds(level) ==
  IF level = <<>> THEN <<>>
  ELSE <<level[1].id>> \o ThreadIds(level[1].replies) \o ThreadIds(Tail(level))

\* C22: getPostComments of post P returns the comments of P with parent null
\* in non-increasing voteScore order, the replies of each returned comment are
\* exactly the stored comments whose parent it is, in non-increasing voteScore
\* order again, to any depth, and no comment appears twice in the result.
C22_ThreadIsSortedForest ==
  (req.op = "getPostComments" /\ res.status = 200) =>
    LET thread == res.data.thread
        ids == ThreadIds(thread)
    IN
    /\ LevelIsRight(thread, {c \in DOMAIN comments :
                               comments[c].post = req.id /\ comments[c].parent = Null})
    /\ \A i, j \in DOMAIN ids : i # j => ids[i] # ids[j]

\* C22 witness: a thread of two top-level comments, the later one first
\* because its voteScore is higher, and a reply under the other
C22_Witness ==
  /\ req.op = "getPostComments" /\ res.status = 200
  /\ Len(res.data.thread) = 2
  /\ res.data.thread[1].id > res.data.thread[2].id
  /\ res.data.thread[1].voteScore > res.data.thread[2].voteScore
  /\ res.data.thread[2].replies # <<>>

\* -------------------------------------------------- interleaved addComment
\* addComment awaits Post.findById, Comment.create and post.save(); inflight[r]
\* holds request r and the post it read while r is between them.

\* no request is between its awaits
AllAnswered == \A r \in Reqs : inflight[r].pc \in {"idle", "done"}

\* the requests that have read their post and not created their comment yet
Creating == {r \in Reqs : inflight[r].pc = "create"}

\* addComment, to its await on Post.findById
AddCommentFind(r, u, id, parent, contentOk) ==
  LET rq == Req("addComment", u, id, "", 0, parent) IN
  /\ inflight[r].pc = "idle"
  /\ nextCommentId + Cardinality(Creating) <= MaxComments
  /\ UNCHANGED <<communities, posts, comments, nextPostId, nextCommentId>>
  /\ pre' = NoPre
  /\ IF ~contentOk
     THEN /\ Fail(rq, 400, "validation")
          /\ inflight' = [inflight EXCEPT ![r] = Done]
     ELSE IF id \notin DOMAIN posts
     THEN /\ Fail(rq, 404, "Post not found")
          /\ inflight' = [inflight EXCEPT ![r] = Done]
     ELSE /\ inflight' = [inflight EXCEPT ![r] =
                            [pc |-> "create", rq |-> rq, post |-> posts[id]]]
          /\ UNCHANGED <<req, res>>

\* addComment, from the post found to its await on Comment.create
AddCommentCreate(r) ==
  /\ inflight[r].pc = "create"
  /\ LET rq == inflight[r].rq
         comment == [content |-> "content", author |-> rq.user, post |-> rq.id,
                     parent |-> rq.parent, upvotes |-> <<>>, downvotes |-> <<>>,
                     voteScore |-> 0]
     IN
     /\ comments' = comments @@ (nextCommentId :> PreSaveVotes(comment))
     /\ nextCommentId' = nextCommentId + 1
     /\ inflight' = [inflight EXCEPT ![r].pc = "save"]
     /\ UNCHANGED <<communities, posts, nextPostId, req, res, pre>>

\* post.save() with commentCount modified: $set of commentCount on the stored
\* document, whatever was saved since it was read
SaveCommentCount(stored, count) == [stored EXCEPT !.commentCount = count]

\* addComment, from the comment created to the response
AddCommentSave(r) ==
  /\ inflight[r].pc = "save"
  /\ inflight[r].rq.op = "addComment"
  /\ LET rq == inflight[r].rq
         read == inflight[r].post
     IN
     /\ UNCHANGED <<communities, comments, nextPostId, nextCommentId>>
     /\ pre' = NoPre
     /\ inflight' = [inflight EXCEPT ![r] = Done]
     /\ IF rq.id \notin DOMAIN posts
        THEN \* save() finds no document (DocumentNotFoundError): next(err)
             /\ Fail(rq, 500, "Server error")
             /\ UNCHANGED posts
        ELSE /\ posts' = [posts EXCEPT ![rq.id] = SaveCommentCount(@, read.commentCount + 1)]
             /\ Respond(rq, 201, NoData)

\* top-level comments on post 1 and on a missing post, interleaved
NextAddCommentInterleaved ==
  \/ \E r \in Reqs, u \in Users, id \in SomePostIds, contentOk \in BOOLEAN :
       AddCommentFind(r, u, id, Null, contentOk)
  \/ \E r \in Reqs : AddCommentCreate(r)
  \/ \E r \in Reqs : AddCommentSave(r)

SpecAddCommentInterleaved == InitVotes /\ [][NextAddCommentInterleaved]_vars

\* C23: once concurrent addComment requests on a post have all completed,
\* every increment has taken effect: the commentCount of the post is the
\* number of stored comments of the post.
C23_NoLostIncrement ==
  AllAnswered =>
    \A id \in DOMAIN posts :
      posts[id].commentCount = Cardinality({c \in DOMAIN comments : comments[c].post = id})

\* ---------------------------------------------- interleaved join and leave
\* joinCommunity and leaveCommunity await Community.findOne and then save();
\* inflight[r] holds request r and the community it read while r is between
\* the two.

\* the version key of the community read by slot s is no longer the stored
\* one once another save() on that community has sent an array update
StaledCommunity(r, name) ==
  [s \in Reqs |->
     IF s = r THEN Done
     ELSE IF /\ inflight[s].pc = "save"
             /\ inflight[s].rq.op \in {"joinCommunity", "leaveCommunity"}
             /\ inflight[s].rq.name = name
     THEN [inflight[s] EXCEPT !.stale = TRUE]
     ELSE inflight[s]]

\* joinCommunity, to its await on Community.findOne
JoinCommunityFind(r, u, name) ==
  LET rq == Req("joinCommunity", u, 0, name, 0, Null) IN
  /\ inflight[r].pc = "idle"
  /\ UNCHANGED <<communities, posts, comments, nextPostId, nextCommentId>>
  /\ pre' = NoPre
  /\ IF name \notin DOMAIN communities
     THEN /\ Fail(rq, 404, "Community not found")
          /\ inflight' = [inflight EXCEPT ![r] = Done]
     ELSE IF Includes(communities[name].members, u)
     THEN /\ Fail(rq, 400, "User is already a member of this community")
          /\ inflight' = [inflight EXCEPT ![r] = Done]
     ELSE /\ inflight' = [inflight EXCEPT ![r] =
                            [pc |-> "save", rq |-> rq, doc |-> communities[name],
                             stale |-> FALSE]]
          /\ UNCHANGED <<req, res>>

\* save() after members.push: a $push onto the stored members, and a $set of
\* the memberCount the hook computed from the members read
SaveJoin(stored, read, u) ==
  LET local == PreSaveCommunity([read EXCEPT !.members = Append(@, u)]) IN
  [stored EXCEPT
     !.members = Append(@, u),
     !.memberCount = IF local.memberCount # read.memberCount THEN local.memberCount ELSE @]

\* joinCommunity, from the community found to the response
JoinCommunitySave(r) ==
  /\ inflight[r].pc = "save"
  /\ inflight[r].rq.op = "joinCommunity"
  /\ LET rq == inflight[r].rq
         read == inflight[r].doc
     IN
     /\ UNCHANGED <<posts, comments, nextPostId, nextCommentId>>
     /\ pre' = NoPre
     /\ communities' = [communities EXCEPT ![rq.name] = SaveJoin(@, read, rq.user)]
     /\ Respond(rq, 200, MemberData([read EXCEPT !.members = Append(@, rq.user)]))
     /\ inflight' = StaledCommunity(r, rq.name)

\* leaveCommunity, to its await on Community.findOne
LeaveCommunityFind(r, u, name) ==
  LET rq == Req("leaveCommunity", u, 0, name, 0, Null) IN
  /\ inflight[r].pc = "idle"
  /\ UNCHANGED <<communities, posts, comments, nextPostId, nextCommentId>>
  /\ pre' = NoPre
  /\ IF name \notin DOMAIN communities
     THEN /\ Fail(rq, 404, "Community not found")
          /\ inflight' = [inflight EXCEPT ![r] = Done]
     ELSE IF ~Includes(communities[name].members, u)
     THEN /\ Fail(rq, 400, "User is not a member of this community")
          /\ inflight' = [inflight EXCEPT ![r] = Done]
     ELSE IF communities[name].creator = u
     THEN /\ Fail(rq, 400, "Creator cannot leave the community")
          /\ inflight' = [inflight EXCEPT ![r] = Done]
     ELSE /\ inflight' = [inflight EXCEPT ![r] =
                            [pc |-> "save", rq |-> rq, doc |-> communities[name],
                             stale |-> FALSE]]
          /\ UNCHANGED <<req, res>>

\* save() after members (and moderators) were reassigned: a $set of the
\* filtered arrays read, and of the memberCount the hook computed from them
SaveLeave(stored, read, u) ==
  LET local == PreSaveCommunity(
                 [read EXCEPT
                    !.members = FilterOut(@, u),
                    !.moderators = IF Includes(@, u) THEN FilterOut(@, u) ELSE @])
  IN
  [stored EXCEPT
     !.members = local.members,
     !.moderators = IF Includes(read.moderators, u) THEN local.moderators ELSE @,
     !.memberCount = IF local.memberCount # read.memberCount THEN local.memberCount ELSE @]

\* leaveCommunity, from the community found to the response
LeaveCommunitySave(r) ==
  /\ inflight[r].pc = "save"
  /\ inflight[r].rq.op = "leaveCommunity"
  /\ LET rq == inflight[r].rq
         read == inflight[r].doc
     IN
     /\ UNCHANGED <<posts, comments, nextPostId, nextCommentId>>
     /\ pre' = NoPre
     /\ IF inflight[r].stale
        THEN \* the $set of an array is guarded by the version key (VersionError): next(err)
             /\ Fail(rq, 500, "Server error")
             /\ UNCHANGED communities
             /\ inflight' = [inflight EXCEPT ![r] = Done]
        ELSE /\ communities' = [communities EXCEPT ![rq.name] = SaveLeave(@, read, rq.user)]
             /\ Respond(rq, 200, MemberData([read EXCEPT !.members = FilterOut(@, rq.user)]))
             /\ inflight' = StaledCommunity(r, rq.name)

\* join and leave requests on the stored community and on a missing one,
\* interleaved
NextMembersInterleaved ==
  \/ \E r \in Reqs, u \in Users, name \in CommunityNames : JoinCommunityFind(r, u, name)
  \/ \E r \in Reqs : JoinCommunitySave(r)
  \/ \E r \in Reqs, u \in Users, name \in CommunityNames : LeaveCommunityFind(r, u, name)
  \/ \E r \in Reqs : LeaveCommunitySave(r)

SpecMembersInterleaved == InitVotes /\ [][NextMembersInterleaved]_vars

\* C24: once concurrent join and leave requests on a community (of different
\* actors, or of one actor twice) have all completed, the result is that of a
\* sequential order: no user is twice in members, memberCount is the length of
\* members, and an actor whose join was the last request answered is a member.
C24_JoinLeaveSerializable ==
  AllAnswered =>
    /\ \A name \in DOMAIN communities :
         /\ \A u \in Users : Occurrences(communities[name].members, u) <= 1
         /\ communities[name].memberCount = Len(communities[name].members)
    /\ (req.op = "joinCommunity" /\ res.status = 200) =>
         Includes(communities[req.name].members, req.user)

\* ------------------------------------------------ the comments of a post
\* C25: the comments of a post form a forest: the parent of every stored
\* comment is null or a stored comment of the same post (no reply is left
\* under a removed comment, none is attached to a missing comment or to a
\* comment of another post).
C25_CommentsFormAForest ==
  \A c \in DOMAIN comments :
    comments[c].parent # Null =>
      /\ comments[c].parent \in DOMAIN comments
      /\ comments[comments[c].parent].post = comments[c].post

\* the part of C25 that deleteComment alone breaks: started from a forest, a
\* successful deleteComment leaves one
C25_DeleteCommentKeepsForest ==
  [][(C25_CommentsFormAForest /\ req'.op = "deleteComment" /\ res'.status = 200)
       => C25_CommentsFormAForest']_vars

\* ------------------------------------------------- the parent relation
\* The parent of a comment is the id sent in the body, stored as sent; the _id
\* of a comment is generated at Comment.create and is not secret (it follows
\* from the ids the API has already returned), so a body can carry the id of
\* any comment: one stored, one removed, or one still to be created.
NextParents ==
  \/ \E parent \in {Null} \cup CommentIds : AddComment(1, 1, parent, TRUE)
  \/ \E u \in Users, id \in CommentIds, content \in Contents : UpdateComment(u, id, content)
  \/ \E id \in CommentIds : DeleteComment(1, id)
  \/ \E id \in SomePostIds : GetPostComments(id)

SpecParents == InitVotes /\ [][NextParents]_vars

RECURSIVE NthParent(_, _, _)
\* the comment reached from c by following parent n times (Null past a root
\* or a comment that is not stored)
NthParent(coll, c, n) ==
  IF n = 0 THEN c
  ELSE IF c \notin DOMAIN coll THEN Null
  ELSE NthParent(coll, coll[c].parent, n - 1)

\* C26: in every reachable state the parent relation among comments is
\* acyclic: no comment is reached from itself by following parent.
C26_ParentRelationIsAcyclic ==
  \A c \in DOMAIN comments :
    \A n \in 1..MaxComments : NthParent(comments, c, n) # c

\* the part of C26 that holds: the parent of a stored comment never changes
\* (updateComment writes content only)
C26_ParentIsFixed ==
  [][\A c \in DOMAIN comments \cap DOMAIN comments' :
       comments'[c].parent = comments[c].parent]_vars

\* the part of C26 that holds: getPostComments visits every comment at most
\* once (a cycle has no top-level comment, so the descent never enters it)
C26_ThreadIsFinite ==
  \A id \in DOMAIN posts :
    \A thread \in CommentsWithReplies(comments, id) :
      Len(ThreadIds(thread)) <= Cardinality(DOMAIN comments)

\* ------------------------------------- interleaved deletePost, deleteComment
\* deletePost, to its await on Post.findById
DeletePostFind(r, u, id) ==
  LET rq == Req("deletePost", u, id, "", 0, Null) IN
  /\ inflight[r].pc = "idle"
  /\ UNCHANGED <<communities, posts, comments, nextPostId, nextCommentId>>
  /\ pre' = NoPre
  /\ IF id \notin DOMAIN posts
     THEN /\ Fail(rq, 404, "Post not found")
          /\ inflight' = [inflight EXCEPT ![r] = Done]
     ELSE /\ inflight' = [inflight EXCEPT ![r] =
                            [pc |-> "community", rq |-> rq, post |-> posts[id]]]
          /\ UNCHANGED <<req, res>>

\* deletePost, from the post found to its await on Comment.deleteMany
DeletePostCommunity(r) ==
  /\ inflight[r].pc = "community"
  /\ LET rq == inflight[r].rq
         post == inflight[r].post
     IN
     /\ UNCHANGED <<communities, posts, comments, nextPostId, nextCommentId>>
     /\ pre' = NoPre
     /\ IF post.community \notin DOMAIN communities
        THEN \* community is null: community.moderators throws
             /\ Fail(rq, 500, "Server error")
             /\ inflight' = [inflight EXCEPT ![r] = Done]
        ELSE IF /\ post.author # rq.user
                /\ ~Includes(communities[post.community].moderators, rq.user)
        THEN /\ Fail(rq, 401, "Not authorized to delete this post")
             /\ inflight' = [inflight EXCEPT ![r] = Done]
        ELSE /\ inflight' = [inflight EXCEPT ![r].pc = "comments"]
             /\ UNCHANGED <<req, res>>

\* deletePost: Comment.deleteMany({post}), to its await on post.remove()
DeletePostComments(r) ==
  /\ inflight[r].pc = "comments"
  /\ comments' = DeleteCommentsOf(comments, inflight[r].rq.id)
  /\ inflight' = [inflight EXCEPT ![r].pc = "remove"]
  /\ UNCHANGED <<communities, posts, nextPostId, nextCommentId, req, res, pre>>

\* deletePost: post.remove() and the response
DeletePostRemove(r) ==
  /\ inflight[r].pc = "remove"
  /\ inflight[r].rq.op = "deletePost"
  /\ posts' = Without(posts, {inflight[r].rq.id})
  /\ Respond(inflight[r].rq, 200, NoData)
  /\ inflight' = [inflight EXCEPT ![r] = Done]
  /\ pre' = NoPre
  /\ UNCHANGED <<communities, comments, nextPostId, nextCommentId>>

\* deleteComment, to its await on Comment.findById
DeleteCommentFind(r, u, id) ==
  LET rq == Req("deleteComment", u, id, "", 0, Null) IN
  /\ inflight[r].pc = "idle"
  /\ UNCHANGED <<communities, posts, comments, nextPostId, nextCommentId>>
  /\ pre' = NoPre
  /\ IF id \notin DOMAIN comments
     THEN /\ Fail(rq, 404, "Comment not found")
          /\ inflight' = [inflight EXCEPT ![r] = Done]
     ELSE /\ inflight' = [inflight EXCEPT ![r] =
                            [pc |-> "post", rq |-> rq, comment |-> comments[id]]]
          /\ UNCHANGED <<req, res>>

\* deleteComment, from the comment found to its await on Comment.deleteMany;
\* found is whether Post.findById gave a post, post is that post
DeleteCommentPost(r) ==
  /\ inflight[r].pc = "post"
  /\ LET rq == inflight[r].rq
         comment == inflight[r].comment
         found == comment.post \in DOMAIN posts
     IN
     /\ UNCHANGED <<communities, posts, comments, nextPostId, nextCommentId>>
     /\ pre' = NoPre
     /\ IF comment.author # rq.user /\ ~found
        THEN \* post is null: post.author throws
             /\ Fail(rq, 500, "Server error")
             /\ inflight' = [inflight EXCEPT ![r] = Done]
        ELSE IF comment.author # rq.user /\ posts[comment.post].author # rq.user
        THEN /\ Fail(rq, 401, "Not authorized to delete this comment")
             /\ inflight' = [inflight EXCEPT ![r] = Done]
        ELSE /\ inflight' = [inflight EXCEPT ![r] =
                               [pc |-> "replies", rq |-> rq, comment |-> comment,
                                found |-> found,
                                count |-> IF found THEN posts[comment.post].commentCount
                                          ELSE 0]]
             /\ UNCHANGED <<req, res>>

\* deleteComment: Comment.deleteMany({parent}) and commentCount -= 1, to its
\* await on Comment.countDocuments
DeleteCommentReplies(r) ==
  /\ inflight[r].pc = "replies"
  /\ LET rq == inflight[r].rq IN
     /\ comments' = DeleteReplies(comments, rq.id)
     /\ UNCHANGED <<communities, posts, nextPostId, nextCommentId>>
     /\ pre' = NoPre
     /\ IF ~inflight[r].found
        THEN \* post is null: post.commentCount throws
             /\ Fail(rq, 500, "Server error")
             /\ inflight' = [inflight EXCEPT ![r] = Done]
        ELSE /\ inflight' = [inflight EXCEPT ![r].pc = "count", ![r].count = @ - 1]
             /\ UNCHANGED <<req, res>>

\* deleteComment: commentCount -= the replies counted, to its await on
\* post.save()
DeleteCommentCount(r) ==
  /\ inflight[r].pc = "count"
  /\ inflight' = [inflight EXCEPT
                    ![r].pc = "save",
                    ![r].count = @ - CountReplies(comments, inflight[r].rq.id)]
  /\ UNCHANGED <<communities, posts, comments, nextPostId, nextCommentId, req, res, pre>>

\* deleteComment: post.save(), to its await on comment.remove()
DeleteCommentSave(r) ==
  /\ inflight[r].pc = "save"
  /\ inflight[r].rq.op = "deleteComment"
  /\ LET rq == inflight[r].rq
         id == inflight[r].comment.post
     IN
     /\ UNCHANGED <<communities, comments, nextPostId, nextCommentId>>
     /\ pre' = NoPre
     /\ IF id \notin DOMAIN posts
        THEN \* save() finds no document (DocumentNotFoundError): next(err)
             /\ Fail(rq, 500, "Server error")
             /\ UNCHANGED posts
             /\ inflight' = [inflight EXCEPT ![r] = Done]
        ELSE /\ posts' = [posts EXCEPT ![id] = SaveCommentCount(@, inflight[r].count)]
             /\ inflight' = [inflight EXCEPT ![r].pc = "remove"]
             /\ UNCHANGED <<req, res>>

\* deleteComment: comment.remove() and the response
DeleteCommentRemove(r) ==
  /\ inflight[r].pc = "remove"
  /\ inflight[r].rq.op = "deleteComment"
  /\ comments' = Without(comments, {inflight[r].rq.id})
  /\ Respond(inflight[r].rq, 200, NoData)
  /\ inflight' = [inflight EXCEPT ![r] = Done]
  /\ pre' = NoPre
  /\ UNCHANGED <<communities, posts, nextPostId, nextCommentId>>

\* deletePost of post 1 by its author, addComment on post 1, and deleteComment
\* of its comment by the comment's author or the post's, interleaved
NextDeletePostInterleaved ==
  \/ \E r \in Reqs : DeletePostFind(r, 1, 1)
  \/ \E r \in Reqs : DeletePostCommunity(r)
  \/ \E r \in Reqs : DeletePostComments(r)
  \/ \E r \in Reqs : DeletePostRemove(r)
  \/ \E r \in Reqs : AddCommentFind(r, 1, 1, Null, TRUE)
  \/ \E r \in Reqs : AddCommentCreate(r)
  \/ \E r \in Reqs : AddCommentSave(r)
  \/ \E r \in Reqs, u \in Actors : DeleteCommentFind(r, u, 1)
  \/ \E r \in Reqs : DeleteCommentPost(r)
  \/ \E r \in Reqs : DeleteCommentReplies(r)
  \/ \E r \in Reqs : DeleteCommentCount(r)
  \/ \E r \in Reqs : DeleteCommentSave(r)
  \/ \E r \in Reqs : DeleteCommentRemove(r)

SpecDeletePostInterleaved == InitVotes /\ [][NextDeletePostInterleaved]_vars

\* C27: in every reachable state, between the steps of interleaved deletePost,
\* addComment and deleteComment requests on a post included, every stored
\* comment refers to a stored post, and no request has failed on a post or
\* community deleted since it started (the 500 of a null document or of a
\* save() that finds none).
C27_ReferentialIntegrity ==
  /\ \A c \in DOMAIN comments : comments[c].post \in DOMAIN posts
  /\ res.status # 500

\* the first half of C27 alone
C27_CommentsReferToPosts ==
  \A c \in DOMAIN comments : comments[c].post \in DOMAIN posts

\* the second half of C27 alone
C27_NoRequestFindsItsPostGone == res.status # 500

\* deleteComment requests of the post's author on a comment, on its reply and
\* on a missing comment, interleaved
NextDeleteCommentInterleaved ==
  \/ \E r \in Reqs, id \in {1, 2, NoSuchComment} : DeleteCommentFind(r, 1, id)
  \/ \E r \in Reqs : DeleteCommentPost(r)
  \/ \E r \in Reqs : DeleteCommentReplies(r)
  \/ \E r \in Reqs : DeleteCommentCount(r)
  \/ \E r \in Reqs : DeleteCommentSave(r)
  \/ \E r \in Reqs : DeleteCommentRemove(r)

SpecDeleteCommentInterleaved == InitRequests /\ [][NextDeleteCommentInterleaved]_vars

\* the first half of C28: commentCount is never negative
C28_CommentCountNeverNegative ==
  \A id \in DOMAIN posts : posts[id].commentCount >= 0

\* the second half of C28: once interleaved deleteComment requests have all
\* completed, commentCount has gone down by the number of comments removed
\* (of the 2 comments the post started with, counted as 2)
C28_DecreaseIsNumberRemoved ==
  AllAnswered =>
    \A id \in DOMAIN posts :
      2 - posts[id].commentCount = 2 - Cardinality({c \in DOMAIN comments : comments[c].post = id})

\* C28: a comment is counted out at most once: commentCount is never
\* negative, and interleaved deleteComment requests on the same comment, or on
\* a comment and its reply, lower commentCount by the number of comments
\* removed, not once per request.
C28_CountedOutOnce ==
  /\ C28_CommentCountNeverNegative
  /\ C28_DecreaseIsNumberRemoved

====
